---- MODULE Spec2Model ----
(***************************************************************************)
(* QuBindR: two-phase matching / optimization of quantum workloads         *)
(* (src/src/qubind.py), its data types (src/src/qutypes.py), the           *)
(* expression utilities (src/src/constraint_utils.py) and the bind         *)
(* endpoint (src/src/api.py).                                              *)
(*                                                                         *)
(* Numbers.  Python floats are modelled by exact rationals <<n, d>>        *)
(* (d > 0).  Every fidelity of the model is 0, 1/2 or 1, so every product  *)
(* the code forms is a dyadic rational that an IEEE double holds exactly.  *)
(* Normalised values that enter the figure of merit are integers over      *)
(* Scale, weights are integers over WUnit.                                 *)
(***************************************************************************)
EXTENDS Integers, Sequences, FiniteSets, TLC

VARIABLES
    qpus,         \* QuBindEngine.qpus: the resource pool, in pool order
    circuit,      \* the workload of the current call
    constraints,  \* the constraint list of the current call
    weights,      \* the OptimizationWeights instance, or NoWeights
    pc,           \* which operation produced the current results
    feasible,     \* result of matching_phase
    evaluated,    \* ids of the resources _is_feasible was called on, in order
    optimal,      \* result of optimization_phase (a resource, None or an error)
    response,     \* result of bind_qpus
    out           \* result of a single helper call (fidelity, score, expression)

vars == <<qpus, circuit, constraints, weights, pc, feasible, evaluated,
          optimal, response, out>>

(***************************************************************************)
(* Bounds of the model.                                                    *)
(***************************************************************************)
MaxPool == 3          \* longest resource pool
MaxCount == 2         \* largest occurrence count of one gate kind
MaxMeas == 2          \* largest measurement count of one qubit
MaxConstraints == 2   \* longest constraint list

(***************************************************************************)
(* Exact rational arithmetic.                                              *)
(***************************************************************************)
Rat(n, d) == <<n, d>>
ROne == Rat(1, 1)
RZero == Rat(0, 1)
RMul(a, b) == Rat(a[1] * b[1], a[2] * b[2])
REq(a, b) == a[1] * b[2] = b[1] * a[2]
RLt(a, b) == a[1] * b[2] < b[1] * a[2]
RLe(a, b) == a[1] * b[2] <= b[1] * a[2]

RECURSIVE RPow(_, _)
RPow(a, k) == IF k = 0 THEN ROne ELSE RMul(a, RPow(a, k - 1))

Min(a, b) == IF a < b THEN a ELSE b
Max(a, b) == IF a > b THEN a ELSE b
Abs(a) == IF a < 0 THEN 0 - a ELSE a

(***************************************************************************)
(* qutypes.py: GateType, QuantumCircuit, QPUResource.                      *)
(***************************************************************************)
GateType == {"X", "Y", "Z", "H", "CNOT", "CZ", "RZ", "RX", "RY", "T", "S"}

\* The gate kinds and qubit indices the workloads of the model use.  "T" is
\* in no fidelity table of the pool, qubit 2 is in no readout table of the
\* two-qubit resources.
Kinds == {"X", "CNOT", "T"}
MeasuredQubits == {0, 2}

\* A mapping of the model: a function whose DOMAIN is the set of its keys.
EmptyMap == [k \in {} |-> 0]

Half == Rat(1, 2)

\* The pricing strategies of mock.py: rate * shots * sum(gate_counts) / 100
\* and rate * shots * len(qubits_used) / 10; rate is in halves (1.5 = 3/2).
CostPerGate(rate2) == [per |-> "gates", rate2 |-> rate2]
CostPerQubit(rate2) == [per |-> "qubits", rate2 |-> rate2]

QuantumCircuit(name, qubits_required, shots, gate_counts, depth, qubits_used, measurements) ==
    [name |-> name, qubits_required |-> qubits_required, shots |-> shots,
     gate_counts |-> gate_counts, depth |-> depth, qubits_used |-> qubits_used,
     measurements |-> measurements]

QPUResource(id, provider, qubits, gate_fidelities, readout_fidelities, max_depth, max_shots, workload, available, cost) ==
    [id |-> id, name |-> id, provider |-> provider, qubits |-> qubits,
     native_gates |-> DOMAIN gate_fidelities,
     gate_fidelities |-> gate_fidelities,
     readout_fidelities |-> readout_fidelities,
     max_depth |-> max_depth, max_shots |-> max_shots,
     workload |-> workload, available |-> available, cost |-> cost]

(***************************************************************************)
(* mock.py: the resources of the pool, with the trade-offs of the mock     *)
(* data (premium: best fidelity, highest price; budget: worst fidelity,    *)
(* cheapest, long queue; capacity and available: same fidelity and price,  *)
(* different queue; inactive: not available).  The standard resource is    *)
(* left out.  Fidelities are taken from {0, 1/2, 1}, which floating point  *)
(* multiplies exactly; the fidelity fields carry no range, so 0.0 is a     *)
(* table entry the type admits (and what a long product underflows to).    *)
(***************************************************************************)
create_premium_qpu ==
    QPUResource("premium-01", "IBM", 27,
                [k \in {"X", "Y", "CNOT"} |-> ROne],
                [q \in {0, 1, 2} |-> ROne],
                2000, 20000, 15, TRUE, CostPerGate(4))

create_budget_qpu ==
    QPUResource("budget-01", "AWS", 2,
                [k \in {"X", "CNOT"} |-> IF k = "X" THEN Half ELSE RZero],
                [q \in {0, 1} |-> Half],
                500, 5000, 75, TRUE, CostPerGate(1))

create_capacity_qpu ==
    QPUResource("capacity-01", "IBM", 127,
                [k \in {"X", "CNOT"} |-> Half],
                [q \in {0, 1, 2} |-> Half],
                800, 8000, 50, TRUE, CostPerQubit(3))

create_available_qpu ==
    QPUResource("available-01", "AWS", 127,
                [k \in {"X", "CNOT"} |-> Half],
                [q \in {0, 1, 2} |-> Half],
                600, 15000, 5, TRUE, CostPerQubit(3))

create_inactive_qpu ==
    QPUResource("inactive-01", "AWS", 20,
                [k \in {"X", "Y", "CNOT"} |-> Half],
                [q \in {0, 1, 2} |-> Half],
                1200, 10000, 0, FALSE, CostPerGate(2))

create_mock_qpus ==
    {create_premium_qpu, create_budget_qpu, create_capacity_qpu,
     create_available_qpu, create_inactive_qpu}

(***************************************************************************)
(* qubind.py: figure-of-merit calculator.                                  *)
(***************************************************************************)

\* The loop of lines 129-131 over the items of circuit.gate_counts.
RECURSIVE GateLoop(_, _, _)
GateLoop(qpu, gate_counts, todo) ==
    IF todo = {} THEN ROne
    ELSE LET gate_type == CHOOSE k \in todo : TRUE
             rest == GateLoop(qpu, gate_counts, todo \ {gate_type})
         IN IF gate_type \in DOMAIN qpu.gate_fidelities
            THEN RMul(rest, RPow(qpu.gate_fidelities[gate_type], gate_counts[gate_type]))
            ELSE rest

\* The loop of lines 134-136 over the items of circuit.measurements.
RECURSIVE ReadoutLoop(_, _, _)
ReadoutLoop(qpu, measurements, todo) ==
    IF todo = {} THEN ROne
    ELSE LET qubit == CHOOSE q \in todo : TRUE
             rest == ReadoutLoop(qpu, measurements, todo \ {qubit})
         IN IF qubit \in DOMAIN qpu.readout_fidelities
            THEN RMul(rest, RPow(qpu.readout_fidelities[qubit], measurements[qubit]))
            ELSE rest

\* A faulty variant: the readout loop of lines 133-136 is left out.
CalculateFidelityNoReadout(qpu, c) ==
    IF DOMAIN c.gate_counts = {} THEN ROne
    ELSE GateLoop(qpu, c.gate_counts, DOMAIN c.gate_counts)

\* A faulty variant: the early return for a workload without gates yields 0.0.
CalculateFidelityEmptyZero(qpu, c) ==
    IF DOMAIN c.gate_counts = {} THEN RZero
    ELSE RMul(GateLoop(qpu, c.gate_counts, DOMAIN c.gate_counts),
              ReadoutLoop(qpu, c.measurements, DOMAIN c.measurements))

\* QuBindEngine._calculate_fidelity
CalculateFidelity(qpu, c) ==
    IF DOMAIN c.gate_counts = {} THEN ROne
    ELSE RMul(GateLoop(qpu, c.gate_counts, DOMAIN c.gate_counts),
              ReadoutLoop(qpu, c.measurements, DOMAIN c.measurements))


\* Fixed-point denominators: a normalised value v in [0, 1] is the integer
\* v * Scale, a weight w is the integer w * WUnit (half a millionth each,
\* so that the 1e-6 tolerance of the weight check is 2 units).
Scale == 8 * 100
WUnit == 2 * 1000000

\* QPUResource.cost: the resource's own pricing function (mock.py).
Sum(f) ==
    LET RECURSIVE S(_)
        S(todo) == IF todo = {} THEN 0
                   ELSE LET k == CHOOSE x \in todo : TRUE IN f[k] + S(todo \ {k})
    IN S(DOMAIN f)

CalculateCost(qpu, c) ==
    IF qpu.cost.per = "gates"
    THEN (qpu.cost.rate2 * c.shots * Sum(c.gate_counts)) \div 200
    ELSE (qpu.cost.rate2 * c.shots * Cardinality(c.qubits_used)) \div 20

\* 1 / (1 + exp(-0.01 * (cost - 100))) at cost = 0, 50, 100, ..., 700, in
\* units of 1 / Scale.  The double is below 1.0 up to cost 3750 and is
\* exactly 1.0 from cost 3800 on (exp(-37) is below half an ulp of 1.0).
LogisticTable ==
    <<215, 302, 400, 498, 585, 654, 705, 739, 762, 777, 786, 791, 795, 797, 798>>

\* QuBindEngine._normalize_cost, for a non-negative cost
NormalizeCost(cost) ==
    IF cost >= 3800 THEN Scale
    ELSE IF cost >= 750 THEN Scale - 1
    ELSE LogisticTable[(cost \div 50) + 1]

\* QuBindEngine._normalize_workload: min(1.0, workload / 100.0)
NormalizeWorkload(workload) == Min(Scale, (workload * Scale) \div 100)

\* A rational of [0, 1] as a multiple of 1 / Scale (rounded down, the way
\* 1 - fidelity loses the low bits of a small fidelity).
ToScale(r) == (r[1] * Scale) \div r[2]

\* A faulty variant: the error term uses the fidelity instead of 1 - fidelity.
CalculateFigureOfMeritNoComplement(qpu, c, w) ==
    w.cost_weight * NormalizeCost(CalculateCost(qpu, c))
    + w.error_weight * ToScale(CalculateFidelity(qpu, c))
    + w.workload_weight * NormalizeWorkload(qpu.workload)

\* QuBindEngine._calculate_figure_of_merit, in units of 1 / (WUnit * Scale)
CalculateFigureOfMerit(qpu, c, w) ==
    LET cost == NormalizeCost(CalculateCost(qpu, c))
        fidelity == ToScale(CalculateFidelity(qpu, c))
        workload == NormalizeWorkload(qpu.workload)
    IN w.cost_weight * cost
       + w.error_weight * (Scale - fidelity)
       + w.workload_weight * workload

(***************************************************************************)
(* qutypes.py: OptimizationWeights.                                        *)
(***************************************************************************)
NoWeights == <<>>
None == [id |-> "None"]

\* math.isclose(total, 1.0, rel_tol=1e-6):
\* abs(total - 1.0) <= 1e-6 * max(abs(total), 1.0)
IsClose(total) == Abs(total - WUnit) <= Max(Abs(total), WUnit) \div 1000000

\* Field(ge=0, le=1) of each weight
FieldInRange(w) == 0 <= w /\ w <= WUnit

\* A faulty variant: the sum of the weights is not checked.
WeightsAcceptedNoSum(cw, ew, ww) ==
    FieldInRange(cw) /\ FieldInRange(ew) /\ FieldInRange(ww)

\* OptimizationWeights(...) succeeds: the field validators, then
\* model_post_init.
WeightsAccepted(cw, ew, ww) ==
    /\ FieldInRange(cw) /\ FieldInRange(ew) /\ FieldInRange(ww)
    /\ IsClose(cw + ew + ww)

OptimizationWeights(cw, ew, ww) ==
    [cost_weight |-> cw, error_weight |-> ew, workload_weight |-> ww]

\* The weights the calls of the model are made with.
WeightChoices == {0 - 1, 0, 1, WUnit \div 2, WUnit - 1, WUnit, WUnit + 1}

(***************************************************************************)
(* Python values.  A number (int, float or bool: True == 1) is a rational, *)
(* a str is a TLA+ string, a set or list is the set of its elements with   *)
(* the type of the elements, a dict is a function with the type of its     *)
(* keys, a raised exception is an Err value that every caller passes on.   *)
(***************************************************************************)
Num(r) == [t |-> "num", v |-> r]
IntVal(i) == Num(Rat(i, 1))
Bool(b) == IntVal(IF b THEN 1 ELSE 0)
Str(s) == [t |-> "str", v |-> s]
SetOf(et, elems) == [t |-> "set", et |-> et, v |-> elems]
ListOf(et, elems) == [t |-> "list", et |-> et, v |-> elems]
Dict(kt, f) == [t |-> "dict", kt |-> kt, v |-> f]
Method == [t |-> "method"]
Obj(cls, rec) == [t |-> "obj", cls |-> cls, v |-> rec]
Err(kind) == [t |-> "err", v |-> kind]
IsErr(x) == x.t = "err"

RAdd(a, b) == Rat(a[1] * b[2] + b[1] * a[2], a[2] * b[2])
RSub(a, b) == Rat(a[1] * b[2] - b[1] * a[2], a[2] * b[2])
RDiv(a, b) == IF b[1] < 0 THEN Rat(0 - a[1] * b[2], 0 - a[2] * b[1])
              ELSE Rat(a[1] * b[2], a[2] * b[1])

(***************************************************************************)
(* str methods used by constraint_utils.py.                                *)
(***************************************************************************)
CharAt(s, i) == SubSeq(s, i, i)

\* s.startswith(prefix)
StartsWith(s, prefix) ==
    Len(prefix) <= Len(s) /\ SubSeq(s, 1, Len(prefix)) = prefix

\* s.find(sub) + 1: the first position sub occurs at, 0 when it does not
Find(s, sub) ==
    LET hits == {i \in 1..(Len(s) - Len(sub) + 1) : SubSeq(s, i, i + Len(sub) - 1) = sub}
    IN IF hits = {} THEN 0 ELSE CHOOSE i \in hits : \A j \in hits : i <= j

\* sub in s
Contains(s, sub) == Find(s, sub) # 0

\* s.split(sep): the pieces between the occurrences of sep, left to right
RECURSIVE Split(_, _)
Split(s, sep) ==
    LET i == Find(s, sep)
    IN IF i = 0 THEN <<s>>
       ELSE <<SubSeq(s, 1, i - 1)>> \o Split(SubSeq(s, i + Len(sep), Len(s)), sep)

\* s.strip(), for the blank
RECURSIVE Strip(_)
Strip(s) ==
    IF Len(s) > 0 /\ CharAt(s, 1) = " " THEN Strip(SubSeq(s, 2, Len(s)))
    ELSE IF Len(s) > 0 /\ CharAt(s, Len(s)) = " " THEN Strip(SubSeq(s, 1, Len(s) - 1))
    ELSE s

Digits == {"0", "1", "2", "3", "4", "5", "6", "7", "8", "9"}
DigitValue(c) ==
    CASE c = "0" -> 0 [] c = "1" -> 1 [] c = "2" -> 2 [] c = "3" -> 3 [] c = "4" -> 4
      [] c = "5" -> 5 [] c = "6" -> 6 [] c = "7" -> 7 [] c = "8" -> 8 [] c = "9" -> 9

AllDigits(s) == \A i \in 1..Len(s) : CharAt(s, i) \in Digits

RECURSIVE DigitsValue(_)
DigitsValue(s) ==
    IF Len(s) = 0 THEN 0
    ELSE 10 * DigitsValue(SubSeq(s, 1, Len(s) - 1)) + DigitValue(CharAt(s, Len(s)))

RECURSIVE Pow10(_)
Pow10(k) == IF k = 0 THEN 1 ELSE 10 * Pow10(k - 1)

IsSigned(b) == Len(b) > 0 /\ CharAt(b, 1) \in {"-", "+"}
Unsigned(b) == IF IsSigned(b) THEN SubSeq(b, 2, Len(b)) ELSE b
Signed(b, n) == IF Len(b) > 0 /\ CharAt(b, 1) = "-" THEN 0 - n ELSE n

\* A stripped literal b whose digits (sign removed) are d.
IntLiteral(b, d) ==
    IF Len(d) > 0 /\ AllDigits(d) THEN IntVal(Signed(b, DigitsValue(d)))
    ELSE Err("ValueError")

\* int(s) for decimal literals: blanks around, an optional sign, digits.
\* An Err value stands for ValueError.
ParseInt(s) == IntLiteral(Strip(s), Unsigned(Strip(s)))

\* A stripped literal b with the digits before and after the point.
FloatLiteral(b, whole, frac) ==
    IF AllDigits(whole) /\ AllDigits(frac) /\ Len(whole) + Len(frac) > 0
    THEN Num(Rat(Signed(b, DigitsValue(whole) * Pow10(Len(frac)) + DigitsValue(frac)),
                 Pow10(Len(frac))))
    ELSE Err("ValueError")

PointSplit(b, d, dot) ==
    IF dot = 0 THEN FloatLiteral(b, d, "")
    ELSE FloatLiteral(b, SubSeq(d, 1, dot - 1), SubSeq(d, dot + 1, Len(d)))

FloatOf(b, d) == PointSplit(b, d, Find(d, "."))

\* float(s) for decimal literals: blanks around, an optional sign, digits
\* with at most one point and at least one digit (no exponent, inf or nan
\* in the model).  An Err value stands for ValueError.
ParseFloat(s) == FloatOf(Strip(s), Unsigned(Strip(s)))

(***************************************************************************)
(* constraint_utils.py: get_nested_property.                               *)
(***************************************************************************)
QPUFields == {"id", "name", "provider", "qubits", "native_gates", "gate_fidelities",
              "readout_fidelities", "max_depth", "max_shots", "workload", "available"}
CircuitFields == {"name", "qubits_required", "shots", "gate_counts", "depth",
                  "qubits_used", "measurements"}

\* hasattr(current, part), for the pydantic fields and the cost method
HasAttr(current, part) ==
    /\ current.t = "obj"
    /\ \/ current.cls = "QPUResource" /\ part \in QPUFields \cup {"cost"}
       \/ current.cls = "QuantumCircuit" /\ part \in CircuitFields

\* getattr(current, part), when hasattr(current, part)
GetAttr(current, part) ==
    LET r == current.v
    IN CASE part = "id" -> Str(r.id)
         [] part = "name" -> Str(r.name)
         [] part = "provider" -> Str(r.provider)
         [] part = "qubits" -> IntVal(r.qubits)
         [] part = "native_gates" -> SetOf("str", r.native_gates)
         [] part = "gate_fidelities" ->
                Dict("str", [k \in DOMAIN r.gate_fidelities |-> Num(r.gate_fidelities[k])])
         [] part = "readout_fidelities" ->
                Dict("int", [k \in DOMAIN r.readout_fidelities |-> Num(r.readout_fidelities[k])])
         [] part = "max_depth" -> IntVal(r.max_depth)
         [] part = "max_shots" -> IntVal(r.max_shots)
         [] part = "workload" -> IntVal(r.workload)
         [] part = "available" -> Bool(r.available)
         [] part = "cost" -> Method
         [] part = "qubits_required" -> IntVal(r.qubits_required)
         [] part = "shots" -> IntVal(r.shots)
         [] part = "gate_counts" ->
                Dict("str", [k \in DOMAIN r.gate_counts |-> IntVal(r.gate_counts[k])])
         [] part = "depth" -> IntVal(r.depth)
         [] part = "qubits_used" -> SetOf("int", r.qubits_used)
         [] part = "measurements" ->
                Dict("int", [k \in DOMAIN r.measurements |-> IntVal(r.measurements[k])])

\* isinstance(current, dict) and part in current: part is a str, so it is a
\* key only of a mapping whose keys are strings (GateType is a str enum).
HasKey(current, part) ==
    current.t = "dict" /\ current.kt = "str" /\ part \in DOMAIN current.v

\* the loop of lines 133-139
RECURSIVE Walk(_, _)
Walk(current, parts) ==
    IF parts = <<>> THEN current
    ELSE IF HasAttr(current, Head(parts)) THEN Walk(GetAttr(current, Head(parts)), Tail(parts))
    ELSE IF HasKey(current, Head(parts)) THEN Walk(current.v[Head(parts)], Tail(parts))
    ELSE Err("ValueError: property not found")

\* get_nested_property(obj, property_path)
get_nested_property(obj, property_path) ==
    IF Contains(property_path, ".")
    THEN Walk(obj, Split(property_path, "."))
    ELSE IF HasAttr(obj, property_path) THEN GetAttr(obj, property_path)
    ELSE Err("ValueError: property not found")

(***************************************************************************)
(* constraint_utils.py: evaluate_expression.                               *)
(***************************************************************************)
ComputedNames == {"fidelity", "cost", "normalized_cost", "normalized_workload", "circuit_depth"}

\* The engine-computed value of a supported computed property
\* (constraint_utils.py lines 42-51, qutypes.py lines 159-168).
ComputedValue(name, qpu, c) ==
    CASE name = "fidelity" -> Num(CalculateFidelity(qpu, c))
      [] name = "cost" -> IntVal(CalculateCost(qpu, c))
      [] name = "normalized_cost" -> Num(Rat(NormalizeCost(CalculateCost(qpu, c)), Scale))
      [] name = "normalized_workload" -> Num(Rat(NormalizeWorkload(qpu.workload), Scale))
      [] name = "circuit_depth" -> IntVal(c.depth)

\* left <op> right of Python, for numbers and for str + str.  Sequence
\* repetition (str * int) and set difference are not among the operands of
\* the model; every other combination is a TypeError.
Arith(op, left, right) ==
    IF left.t = "num" /\ right.t = "num"
    THEN CASE op = "*" -> Num(RMul(left.v, right.v))
           [] op = "/" -> IF right.v[1] = 0 THEN Err("ZeroDivisionError")
                          ELSE Num(RDiv(left.v, right.v))
           [] op = "+" -> Num(RAdd(left.v, right.v))
           [] op = "-" -> Num(RSub(left.v, right.v))
    ELSE IF op = "+" /\ left.t = "str" /\ right.t = "str"
    THEN Str(left.v \o right.v)
    ELSE Err("TypeError")

\* A faulty variant: the additive operators are tried before the
\* multiplicative ones.
OperatorsSumFirst == <<"+", "-", "*", "/">>

\* The operators in the order lines 59-104 try them.
Operators == <<"*", "/", "+", "-">>
Separator(i) == " " \o Operators[i] \o " "

\* The first operator (from position i of Operators on) whose blank-padded
\* form occurs in the expression exactly once, so that split gives two
\* parts; 0 when there is none.
RECURSIVE SplitOperator(_, _)
SplitOperator(expression, i) ==
    IF i > Len(Operators) THEN 0
    ELSE IF Contains(expression, Separator(i)) /\ Len(Split(expression, Separator(i))) = 2
    THEN i
    ELSE SplitOperator(expression, i + 1)

\* a unless it is an error, then b
OrElse(a, b) == IF IsErr(a) THEN b ELSE a

\* lines 106-116: int, then float, then the string itself
Literal(expression) ==
    OrElse(ParseInt(expression), OrElse(ParseFloat(expression), Str(expression)))

\* return left <op> right, after both operands were evaluated (left first)
Combine(op, left, right) ==
    IF IsErr(left) THEN left
    ELSE IF IsErr(right) THEN right
    ELSE Arith(op, left, right)

RECURSIVE evaluate_expression(_, _, _, _)

\* the try/except of a split: float(parts[1].strip()), or the recursive
\* evaluation when that is a ValueError
RightOperand(literal, text, qpu, c, engine) ==
    IF IsErr(literal) THEN evaluate_expression(Strip(text), qpu, c, engine)
    ELSE literal

\* the body of "if len(parts) == 2"
EvaluateParts(op, parts, qpu, c, engine) ==
    Combine(op,
            evaluate_expression(Strip(parts[1]), qpu, c, engine),
            RightOperand(ParseFloat(Strip(parts[2])), parts[2], qpu, c, engine))

\* lines 58-116, k being the operator the expression is split at
EvaluateArithmetic(expression, k, qpu, c, engine) ==
    IF k # 0
    THEN EvaluateParts(Operators[k], Split(expression, Separator(k)), qpu, c, engine)
    ELSE Literal(expression)

\* lines 40-53
EvaluateComputed(prop_name, qpu, c) ==
    IF prop_name \in ComputedNames THEN ComputedValue(prop_name, qpu, c)
    ELSE Err("ValueError: computed property not supported")

\* evaluate_expression(expression, qpu, circuit, engine); qpu and circuit
\* are always given, engine is TRUE when an engine is given.
evaluate_expression(expression, qpu, c, engine) ==
    IF StartsWith(expression, "qpu.")
    THEN get_nested_property(Obj("QPUResource", qpu), SubSeq(expression, 5, Len(expression)))
    ELSE IF StartsWith(expression, "circuit.")
    THEN get_nested_property(Obj("QuantumCircuit", c), SubSeq(expression, 9, Len(expression)))
    ELSE IF StartsWith(expression, "computed.") /\ engine
    THEN EvaluateComputed(SubSeq(expression, 10, Len(expression)), qpu, c)
    ELSE EvaluateArithmetic(expression, SplitOperator(expression, 1), qpu, c, engine)

(***************************************************************************)
(* qutypes.py: Constraint and Constraint.evaluate.                         *)
(***************************************************************************)
ConstraintOperator ==
    {"eq", "ne", "gt", "ge", "lt", "le", "in", "not_in", "contains", "subset", "superset"}
ConstraintTarget == {"qpu", "circuit", "computed"}

\* custom_fn: none, or a predicate of the caller that is true on some
\* resources, raises on others and is false on the rest.
NoFn == [kind |-> "none"]
CustomFn(true_on, raise_on) == [kind |-> "fn", true_on |-> true_on, raise_on |-> raise_on]

Constraint(name, target, property, operator, value, custom_fn) ==
    [name |-> name, target |-> target, property |-> property,
     operator |-> operator, value |-> value, custom_fn |-> custom_fn]

\* The characters of the model's strings, in code-point order.
Alphabet == " *+-./0123456789ABCDEFGHIJKLMNOPQRSTUVWXYZ_abcdefghijklmnopqrstuvwxyz"

\* a < b for two str
RECURSIVE StrLt(_, _)
StrLt(a, b) ==
    IF Len(b) = 0 THEN FALSE
    ELSE IF Len(a) = 0 THEN TRUE
    ELSE IF CharAt(a, 1) = CharAt(b, 1) THEN StrLt(Tail(a), Tail(b))
    ELSE Find(Alphabet, CharAt(a, 1)) < Find(Alphabet, CharAt(b, 1))

IsCollection(x) == x.t \in {"set", "list"}

\* a == b
PyEq(a, b) ==
    CASE a.t = "num" /\ b.t = "num" -> REq(a.v, b.v)
      [] a.t = "str" /\ b.t = "str" -> a.v = b.v
      [] IsCollection(a) /\ IsCollection(b) ->
             /\ a.t = b.t
             /\ Cardinality(a.v) = Cardinality(b.v)
             /\ (a.v # {} => (a.et = b.et /\ a.v = b.v))
      [] OTHER -> FALSE

\* a < b; Err("TypeError") when the operands cannot be ordered
PyLt(a, b) ==
    CASE a.t = "num" /\ b.t = "num" -> Bool(RLt(a.v, b.v))
      [] a.t = "str" /\ b.t = "str" -> Bool(StrLt(a.v, b.v))
      [] a.t = "set" /\ b.t = "set" ->
             Bool(Cardinality(a.v) < Cardinality(b.v)
                  /\ (a.v # {} => (a.et = b.et /\ a.v \subseteq b.v)))
      [] OTHER -> Err("TypeError")

OrEqual(lt, a, b) == IF IsErr(lt) THEN lt ELSE Bool(lt = Bool(TRUE) \/ PyEq(a, b))

\* a <= b
PyLe(a, b) == OrEqual(PyLt(a, b), a, b)

\* The elements iterating over x yields, as Python values.
IsIterable(x) == x.t \in {"set", "list", "str", "dict"}
Items(x) ==
    CASE IsCollection(x) -> {IF x.et = "str" THEN Str(e) ELSE IntVal(e) : e \in x.v}
      [] x.t = "str" -> {Str(CharAt(x.v, i)) : i \in 1..Len(x.v)}
      [] x.t = "dict" -> {IF x.kt = "str" THEN Str(k) ELSE IntVal(k) : k \in DOMAIN x.v}

\* item in container; Err("TypeError") when container has no membership test
\* for item
PyIn(item, container) ==
    CASE container.t = "str" ->
             IF item.t = "str" THEN Bool(Contains(container.v, item.v)) ELSE Err("TypeError")
      [] container.t \in {"set", "dict"} /\ item.t \in {"set", "list", "dict"} ->
             Err("TypeError")
      [] IsIterable(container) -> Bool(\E e \in Items(container) : PyEq(item, e))
      [] OTHER -> Err("TypeError")

\* not x
PyNot(x) == IF IsErr(x) THEN x ELSE Bool(x = Bool(FALSE))

\* all(results)
PyAll(results) ==
    IF \E r \in results : IsErr(r) THEN Err("TypeError")
    ELSE Bool(\A r \in results : r = Bool(TRUE))

\* set(a).issubset(set(b))
IsSubset(a, b) ==
    IF ~IsIterable(a) \/ ~IsIterable(b) THEN Err("TypeError")
    ELSE Bool(\A x \in Items(a) : \E y \in Items(b) : PyEq(x, y))

\* lines 180-203: the comparison of the property value with the comparison
\* value
ApplyOperator(operator, property_value, comparison_value) ==
    CASE operator = "eq" -> Bool(PyEq(property_value, comparison_value))
      [] operator = "ne" -> Bool(~PyEq(property_value, comparison_value))
      [] operator = "gt" -> PyLt(comparison_value, property_value)
      [] operator = "ge" -> PyLe(comparison_value, property_value)
      [] operator = "lt" -> PyLt(property_value, comparison_value)
      [] operator = "le" -> PyLe(property_value, comparison_value)
      [] operator = "in" -> PyIn(property_value, comparison_value)
      [] operator = "not_in" -> PyNot(PyIn(property_value, comparison_value))
      [] operator = "contains" ->
             IF ~IsIterable(comparison_value) THEN Err("TypeError")
             ELSE PyAll({PyIn(item, property_value) : item \in Items(comparison_value)})
      [] operator = "subset" -> IsSubset(property_value, comparison_value)
      [] operator = "superset" -> IsSubset(comparison_value, property_value)
      [] OTHER -> Err("ValueError: unknown operator")

\* lines 150-172: the property value of the constraint's target
PropertyValue(con, qpu, c, engine) ==
    CASE con.target = "qpu" -> get_nested_property(Obj("QPUResource", qpu), con.property)
      [] con.target = "circuit" -> get_nested_property(Obj("QuantumCircuit", c), con.property)
      [] con.target = "computed" ->
             IF ~engine THEN Err("ValueError: engine required")
             ELSE IF con.property \in ComputedNames THEN ComputedValue(con.property, qpu, c)
             ELSE Err("ValueError: computed property not supported")
      [] OTHER -> Err("ValueError: unknown target")

\* lines 175-177: the comparison value, evaluated when it is an expression
ComparisonValue(con, qpu, c, engine) ==
    IF con.value.t = "str"
       /\ (Contains(con.value.v, "qpu.") \/ Contains(con.value.v, "circuit.")
           \/ Contains(con.value.v, "computed."))
    THEN evaluate_expression(con.value.v, qpu, c, engine)
    ELSE con.value

\* lines 180-203, after both values were computed (the property value first)
CompareValues(operator, property_value, comparison_value) ==
    IF IsErr(property_value) THEN property_value
    ELSE IF IsErr(comparison_value) THEN comparison_value
    ELSE ApplyOperator(operator, property_value, comparison_value)

\* Constraint.evaluate(qpu, circuit, engine): Bool(...) or a raised Err
ConstraintEvaluate(con, qpu, c, engine) ==
    IF con.custom_fn.kind = "fn"
    THEN IF qpu.id \in con.custom_fn.raise_on THEN Err("RuntimeError")
         ELSE Bool(qpu.id \in con.custom_fn.true_on)
    ELSE CompareValues(con.operator,
                       PropertyValue(con, qpu, c, engine),
                       ComparisonValue(con, qpu, c, engine))

(***************************************************************************)
(* qubind.py: matching phase.                                              *)
(***************************************************************************)

\* A faulty variant: no try/except around constraint.evaluate, the error leaves
\* _is_feasible.
NotCaught(r) ==
    IF IsErr(r) THEN "raise"
    ELSE IF r = Bool(FALSE) THEN "no"
    ELSE "yes"

\* The try/except of lines 86-91 around one constraint.evaluate, r being
\* what the call returned or raised: "no" for False and for any exception,
\* "yes" to go on with the next constraint.
Caught(r) ==
    IF IsErr(r) THEN "no"
    ELSE IF r = Bool(FALSE) THEN "no"
    ELSE "yes"

RECURSIVE ConstraintLoop(_, _, _, _)

\* after constraint j gave the outcome o
AfterConstraint(o, qpu, c, cons, j) ==
    IF o = "yes" THEN ConstraintLoop(qpu, c, cons, j + 1) ELSE o

\* The loop of lines 85-93: "yes" when every constraint is true.
ConstraintLoop(qpu, c, cons, j) ==
    IF j > Len(cons) THEN "yes"
    ELSE AfterConstraint(Caught(ConstraintEvaluate(cons[j], qpu, c, TRUE)), qpu, c, cons, j)

\* A faulty variant: the availability flag is not checked.
IsFeasibleIgnoreAvailable(qpu, c, cons) ==
    IF qpu.qubits < c.qubits_required THEN "no"
    ELSE ConstraintLoop(qpu, c, cons, 1)

\* QuBindEngine._is_feasible: "yes", "no", or "raise" when an exception
\* leaves it (which the code never lets happen)
IsFeasible(qpu, c, cons) ==
    IF ~qpu.available THEN "no"
    ELSE IF qpu.qubits < c.qubits_required THEN "no"
    ELSE ConstraintLoop(qpu, c, cons, 1)

\* The result of matching_phase: the feasible list, the ids of the resources
\* _is_feasible was called on (in call order), and whether an exception ended
\* the loop.
MatchResult(feasible_qpus, seen, raised) ==
    [feasible |-> feasible_qpus, evaluated |-> seen, raised |-> raised]

\* A faulty variant: feasible_qpus.insert(0, qpu) instead of append.
MatchStepPrepend(acc, qpu, f) ==
    MatchResult(IF f = "yes" THEN <<qpu>> \o acc.feasible ELSE acc.feasible,
                Append(acc.evaluated, qpu.id), f = "raise")

\* One round of the loop of lines 69-71, f being what _is_feasible gave.
MatchStep(acc, qpu, f) ==
    MatchResult(IF f = "yes" THEN Append(acc.feasible, qpu) ELSE acc.feasible,
                Append(acc.evaluated, qpu.id), f = "raise")

\* The loop of lines 69-71; an exception ends it.
RECURSIVE MatchLoop(_, _, _, _, _)
MatchLoop(pool, c, cons, i, acc) ==
    IF i > Len(pool) \/ acc.raised THEN acc
    ELSE MatchLoop(pool, c, cons, i + 1,
                   MatchStep(acc, pool[i], IsFeasible(pool[i], c, cons)))

\* QuBindEngine.matching_phase
matching_phase(pool, c, cons) == MatchLoop(pool, c, cons, 1, MatchResult(<<>>, <<>>, FALSE))

(***************************************************************************)
(* qubind.py: optimization phase.                                          *)
(***************************************************************************)

\* best_fom starts as float("inf"): has_best is FALSE until a score is below
\* it.  Every score of the model is finite, so the first one is.
Best(best_qpu, best_fom, has_best) ==
    [best_qpu |-> best_qpu, best_fom |-> best_fom, has_best |-> has_best]

\* A faulty variant: the scan compares with <=, so the last of several minimal
\* elements wins.
BetterOrEqual(best, qpu, fom) ==
    IF ~best.has_best \/ fom <= best.best_fom THEN Best(qpu, fom, TRUE) ELSE best

\* lines 110-112: "if fom < best_fom"
Better(best, qpu, fom) ==
    IF ~best.has_best \/ fom < best.best_fom THEN Best(qpu, fom, TRUE) ELSE best

\* The loop of lines 108-112.
RECURSIVE OptimizeLoop(_, _, _, _, _)
OptimizeLoop(feasible_qpus, c, w, i, best) ==
    IF i > Len(feasible_qpus) THEN best
    ELSE OptimizeLoop(feasible_qpus, c, w, i + 1,
                      Better(best, feasible_qpus[i],
                             CalculateFigureOfMerit(feasible_qpus[i], c, w)))

\* A faulty variant: the check of lines 102-103 is left out, and the scan of
\* an empty list returns best_qpu = None.
optimization_phase_unchecked(feasible_qpus, c, w) ==
    OptimizeLoop(feasible_qpus, c, w, 1, Best(None, 0, FALSE)).best_qpu

\* QuBindEngine.optimization_phase: the best resource, or the ValueError of
\* line 103
optimization_phase(feasible_qpus, c, w) ==
    IF feasible_qpus = <<>> THEN Err("ValueError: No feasible QPUs found")
    ELSE OptimizeLoop(feasible_qpus, c, w, 1, Best(None, 0, FALSE)).best_qpu

(***************************************************************************)
(* Workloads of the model (what circuits.py hands to the engine).          *)
(***************************************************************************)
Maps(keys, vals) == UNION {[ks -> vals] : ks \in SUBSET keys}

ShotChoices == {10000, 200000}

MkCircuit(gate_counts, measurements, shots) ==
    QuantumCircuit("circuit", 3, shots, gate_counts, Sum(gate_counts),
                   DOMAIN measurements \cup (IF DOMAIN gate_counts = {} THEN {} ELSE {0}),
                   measurements)

AllCircuits ==
    {MkCircuit(g, m, s) : g \in Maps(Kinds, 1..MaxCount),
                          m \in Maps(MeasuredQubits, 1..MaxMeas),
                          s \in ShotChoices}

(***************************************************************************)
(* Results of single calls.                                                *)
(***************************************************************************)
NoResult == [op |-> "none"]
NoResponse == [status |-> 0]

\* The workloads the scoring calls are made with: gates of one kind,
\* measurements of one qubit.
ScoreCircuits ==
    {c \in AllCircuits : /\ DOMAIN c.gate_counts \subseteq {"X"}
                         /\ DOMAIN c.measurements \subseteq {0}}

(***************************************************************************)
(* SpecFidelity: _calculate_fidelity applied to one resource and one       *)
(* workload.                                                               *)
(***************************************************************************)
InitCall(circuits) ==
    /\ qpus \in {<<r>> : r \in create_mock_qpus}
    /\ circuit \in circuits
    /\ constraints = <<>>
    /\ weights = NoWeights
    /\ pc = "init"
    /\ feasible = <<>>
    /\ evaluated = <<>>
    /\ optimal = None
    /\ response = NoResponse
    /\ out = NoResult

InitFidelity == InitCall({c \in AllCircuits : c.shots = 10000})

\* engine._calculate_fidelity(qpu, circuit)
CallCalculateFidelity ==
    /\ pc = "init"
    /\ out' = [op |-> "fidelity", val |-> CalculateFidelity(qpus[1], circuit)]
    /\ pc' = "fidelity"
    /\ UNCHANGED <<qpus, circuit, constraints, weights, feasible, evaluated, optimal, response>>

NextFidelity == CallCalculateFidelity

SpecFidelity == InitFidelity /\ [][NextFidelity]_vars

(***************************************************************************)
(* SpecScore: OptimizationWeights construction and                         *)
(* _calculate_figure_of_merit applied to one resource and one workload.    *)
(***************************************************************************)
InitScore == InitCall(ScoreCircuits)

\* OptimizationWeights(cost_weight=cw, error_weight=ew, workload_weight=ww)
NewOptimizationWeights(cw, ew, ww) ==
    /\ pc = "init"
    /\ IF WeightsAccepted(cw, ew, ww)
       THEN /\ weights' = OptimizationWeights(cw, ew, ww)
            /\ pc' = "weights_ok"
       ELSE /\ weights' = NoWeights
            /\ pc' = "weights_err"
    /\ out' = [op |-> "OptimizationWeights", args |-> <<cw, ew, ww>>]
    /\ UNCHANGED <<qpus, circuit, constraints, feasible, evaluated, optimal, response>>

\* engine._calculate_figure_of_merit(qpu, circuit, weights)
CallCalculateFigureOfMerit ==
    /\ pc = "weights_ok"
    /\ out' = [op |-> "fom", val |-> CalculateFigureOfMerit(qpus[1], circuit, weights)]
    /\ pc' = "fom"
    /\ UNCHANGED <<qpus, circuit, constraints, weights, feasible, evaluated, optimal, response>>

NextScore ==
    \/ \E cw \in WeightChoices, ew \in WeightChoices, ww \in WeightChoices :
           NewOptimizationWeights(cw, ew, ww)
    \/ CallCalculateFigureOfMerit

SpecScore == InitScore /\ [][NextScore]_vars

(***************************************************************************)
(* SpecExpr: evaluate_expression applied to one expression, one resource   *)
(* and one workload.                                                       *)
(***************************************************************************)
\* The workloads of the expression calls: depths 2 and 1.
ExprCircuits ==
    { MkCircuit([k \in {"X", "CNOT"} |-> 1], [q \in {0} |-> 1], 10000),
      MkCircuit([k \in {"X"} |-> 1], EmptyMap, 10000) }

\* The expressions the calls are made with.
ExprChoices ==
    { "qpu.max_depth * 0.8", "circuit.depth * 2", "qpu.qubits + 1",
      "qpu.max_depth / 2", "qpu.max_depth - circuit.depth",
      "2 * circuit.depth", "1 + 2 * 3", "1 * 2 * 3",
      "1 + circuit.depth * 2", "1 + 2 * circuit.depth",
      "qpu.max_depth", "circuit.depth", "qpu.gate_fidelities.X", "qpu.color",
      "computed.fidelity", "computed.cost", "computed.speed",
      "0.8", "42", " -7 ", "superconducting" }

InitExpr == InitCall(ExprCircuits)

\* evaluate_expression(expression, qpu, circuit, engine), the engine given
\* or None
CallEvaluateExpression(expression, engine) ==
    /\ pc = "init"
    /\ out' = [op |-> "expr", expression |-> expression, engine |-> engine,
               val |-> evaluate_expression(expression, qpus[1], circuit, engine)]
    /\ pc' = "expr"
    /\ UNCHANGED <<qpus, circuit, constraints, weights, feasible, evaluated, optimal, response>>

\* The property paths the resolver is called with.
PathChoices ==
    { "max_depth", "depth", "color", "cost",
      "gate_fidelities.X", "gate_fidelities.T", "gate_fidelities.X.Y",
      "readout_fidelities.0", "readout_fidelities.7",
      "gate_counts.X", "measurements.0", "qubits.X" }

\* The root objects: the resource or the workload of the call.
Root(root) ==
    IF root = "qpu" THEN Obj("QPUResource", qpus[1]) ELSE Obj("QuantumCircuit", circuit)

\* get_nested_property(qpu, property_path) and
\* get_nested_property(circuit, property_path)
CallGetNestedProperty(root, property_path) ==
    /\ pc = "init"
    /\ out' = [op |-> "prop", root |-> root, path |-> property_path,
               val |-> get_nested_property(Root(root), property_path)]
    /\ pc' = "prop"
    /\ UNCHANGED <<qpus, circuit, constraints, weights, feasible, evaluated, optimal, response>>

\* The constraints of the single evaluations: computed targets with
\* supported and unsupported names, and a resource target for comparison.
EvaluatedConstraints ==
    { Constraint("fidelity", "computed", "fidelity", "gt", IntVal(0), NoFn),
      Constraint("cost", "computed", "cost", "le", IntVal(1000), NoFn),
      Constraint("depth", "computed", "circuit_depth", "le", Str("qpu.max_depth"), NoFn),
      Constraint("speed", "computed", "speed", "ge", IntVal(1), NoFn),
      Constraint("custom", "computed", "speed", "ge", IntVal(1),
                 CustomFn({"premium-01"}, {"budget-01"})),
      Constraint("min_qubits", "qpu", "qubits", "ge", IntVal(50), NoFn) }

\* constraint.evaluate(qpu, circuit, engine), the engine given or None
CallConstraintEvaluate(con, engine) ==
    /\ pc = "init"
    /\ out' = [op |-> "constraint", con |-> con, engine |-> engine,
               val |-> ConstraintEvaluate(con, qpus[1], circuit, engine)]
    /\ pc' = "constraint"
    /\ UNCHANGED <<qpus, circuit, constraints, weights, feasible, evaluated, optimal, response>>

NextExpr ==
    \/ \E expression \in ExprChoices, engine \in BOOLEAN :
           CallEvaluateExpression(expression, engine)
    \/ \E con \in EvaluatedConstraints, engine \in BOOLEAN :
           CallConstraintEvaluate(con, engine)
    \/ \E root \in {"qpu", "circuit"}, property_path \in PathChoices :
           CallGetNestedProperty(root, property_path)

SpecExpr == InitExpr /\ [][NextExpr]_vars

(***************************************************************************)
(* api.py: the bind endpoint.                                              *)
(***************************************************************************)
WeightKeys == {"cost_weight", "error_weight", "workload_weight"}

\* The defaults 0.33, 0.33, 0.34 of lines 114-116, in weight units.
DefaultWeight(key) == IF key = "workload_weight" THEN 34 * (WUnit \div 100)
                      ELSE 33 * (WUnit \div 100)

\* request.figures_of_merit.get(key, default)
GetWeight(figures_of_merit, key) ==
    IF key \in DOMAIN figures_of_merit THEN figures_of_merit[key] ELSE DefaultWeight(key)

BindRequest(qasm_ok, figures_of_merit, ranking) ==
    [qasm_ok |-> qasm_ok, figures_of_merit |-> figures_of_merit, ranking |-> ranking]

RankEntry(qpu, fom) ==
    [qpu_id |-> qpu.id, qpu_name |-> qpu.name, provider |-> qpu.provider,
     figure_of_merit |-> fom]

\* A faulty variant: an entry is placed before the entries of equal score.
RECURSIVE InsertBeforeEqual(_, _)
InsertBeforeEqual(sorted, x) ==
    IF sorted = <<>> THEN <<x>>
    ELSE IF x.figure_of_merit <= Head(sorted).figure_of_merit THEN <<x>> \o sorted
    ELSE <<Head(sorted)>> \o InsertBeforeEqual(Tail(sorted), x)

\* One step of the stable sort: x goes after every entry whose key is not
\* greater than its own.
RECURSIVE InsertStable(_, _)
InsertStable(sorted, x) ==
    IF sorted = <<>> THEN <<x>>
    ELSE IF x.figure_of_merit < Head(sorted).figure_of_merit THEN <<x>> \o sorted
    ELSE <<Head(sorted)>> \o InsertStable(Tail(sorted), x)

\* A faulty variant: the list is sorted with reverse=True, best score last.
RECURSIVE InsertDescending(_, _)
InsertDescending(sorted, x) ==
    IF sorted = <<>> THEN <<x>>
    ELSE IF x.figure_of_merit > Head(sorted).figure_of_merit THEN <<x>> \o sorted
    ELSE <<Head(sorted)>> \o InsertDescending(Tail(sorted), x)

RECURSIVE SortDescending(_)
SortDescending(entries) ==
    IF entries = <<>> THEN <<>>
    ELSE InsertDescending(SortDescending(SubSeq(entries, 1, Len(entries) - 1)),
                          entries[Len(entries)])

\* ranked_qpus.sort(key=lambda x: x["figure_of_merit"]): list.sort is stable
RECURSIVE SortByFigureOfMerit(_)
SortByFigureOfMerit(entries) ==
    IF entries = <<>> THEN <<>>
    ELSE InsertStable(SortByFigureOfMerit(SubSeq(entries, 1, Len(entries) - 1)),
                      entries[Len(entries)])

NoRanking == <<[qpu_id |-> "no ranking"]>>

Return(selected_qpu, figure_of_merit, ranked_qpus) ==
    [kind |-> "return", selected_qpu |-> selected_qpu,
     figure_of_merit |-> figure_of_merit, ranked_qpus |-> ranked_qpus]
Raise(type, status, detail) ==
    [kind |-> "raise", type |-> type, status |-> status, detail |-> detail]

\* lines 156-173: the response once the optimal resource is known
BindOptimal(request, c, w, feasible_qpus, optimal_qpu) ==
    Return(optimal_qpu, CalculateFigureOfMerit(optimal_qpu, c, w),
           IF request.ranking
           THEN SortByFigureOfMerit(
                    [i \in 1..Len(feasible_qpus) |->
                        RankEntry(feasible_qpus[i],
                                  CalculateFigureOfMerit(feasible_qpus[i], c, w))])
           ELSE NoRanking)

\* lines 120-175: the response once the matching phase has run
BindFeasible(request, c, w, feasible_qpus) ==
    IF feasible_qpus = <<>>
    THEN Raise("HTTPException", 404, "No feasible QPUs found for the given constraints")
    ELSE IF DOMAIN request.figures_of_merit = {}
    THEN Return(feasible_qpus[1], 0,
                IF request.ranking
                THEN [i \in 1..Len(feasible_qpus) |-> RankEntry(feasible_qpus[i], 0)]
                ELSE NoRanking)
    ELSE BindOptimal(request, c, w, feasible_qpus, optimization_phase(feasible_qpus, c, w))

\* lines 112-118: the weights, then the matching phase
BindWeights(request, pool, c, cons, cw, ew, ww) ==
    IF ~WeightsAccepted(cw, ew, ww)
    THEN Raise("ValueError", 0, "Weights must sum to 1.0")
    ELSE BindFeasible(request, c, OptimizationWeights(cw, ew, ww),
                      matching_phase(pool, c, cons).feasible)

\* The body of the try statement, lines 95-175: the value it returns or the
\* exception it raises.
BindBody(request, pool, c, cons) ==
    IF ~request.qasm_ok THEN Raise("QASM2ParseError", 0, "parse error")
    ELSE IF \E j \in 1..Len(cons) : cons[j].target \notin ConstraintTarget
                                    \/ cons[j].operator \notin ConstraintOperator
    THEN Raise("ValueError", 0, "not a valid enum value")
    ELSE BindWeights(request, pool, c, cons,
                     GetWeight(request.figures_of_merit, "cost_weight"),
                     GetWeight(request.figures_of_merit, "error_weight"),
                     GetWeight(request.figures_of_merit, "workload_weight"))

\* The except clause of lines 177-180 turns every exception raised in the
\* try body into an HTTP 400.
Respond(request, r) ==
    IF r.kind = "return"
    THEN [status |-> 200, request |-> request, selected_qpu |-> r.selected_qpu.id,
          figure_of_merit |-> r.figure_of_merit, ranked_qpus |-> r.ranked_qpus,
          detail |-> ""]
    ELSE [status |-> 400, request |-> request, selected_qpu |-> None.id,
          figure_of_merit |-> 0, ranked_qpus |-> NoRanking,
          detail |-> "Error in binding process: " \o r.detail]

\* bind_qpus
bind_qpus(request, pool, c, cons) == Respond(request, BindBody(request, pool, c, cons))

(***************************************************************************)
(* Spec: the engine over a pool, called directly (matching_phase, then     *)
(* optimization_phase) and through the bind endpoint.                      *)
(***************************************************************************)

\* The pools: the sequences of at most MaxPool different resources.
RECURSIVE Pools(_)
Pools(n) ==
    IF n = 0 THEN {<<>>}
    ELSE LET shorter == Pools(n - 1)
             Fresh(p) == {r \in create_mock_qpus : \A i \in 1..Len(p) : p[i] # r}
         IN shorter \cup
            UNION {{Append(p, r) : r \in Fresh(p)} : p \in {q \in shorter : Len(q) = n - 1}}

\* The constraints the calls are made with.
ConstraintChoices ==
    << Constraint("min_qubits", "qpu", "qubits", "ge", IntVal(50), NoFn),
       Constraint("depth_margin", "qpu", "max_depth", "ge", Str("circuit.depth * 2"), NoFn),
       Constraint("y_fidelity", "qpu", "gate_fidelities.Y", "ge", Num(Half), NoFn),
       Constraint("fidelity", "computed", "fidelity", "gt", IntVal(0), NoFn),
       Constraint("custom", "qpu", "id", "eq", Str(""),
                  CustomFn({"capacity-01", "available-01", "inactive-01"}, {"premium-01"})),
       Constraint("depth_ok", "qpu", "max_depth", "ge", Str("circuit.depth"), NoFn) >>

\* The constraint lists: the sublists of ConstraintChoices of at most
\* MaxConstraints constraints.
ConstraintLists ==
    LET RECURSIVE Pick(_, _)
        Pick(ks, i) == IF i > Len(ConstraintChoices) THEN <<>>
                       ELSE IF i \in ks THEN <<ConstraintChoices[i]>> \o Pick(ks, i + 1)
                       ELSE Pick(ks, i + 1)
    IN {Pick(ks, 1) : ks \in {x \in SUBSET (1..Len(ConstraintChoices)) :
                                  Cardinality(x) <= MaxConstraints}}

\* The workloads: a small one every resource of enough qubits can take, and
\* one of 30 qubits.
MainCircuits ==
    { [MkCircuit([k \in {"X", "CNOT"} |-> 1], [q \in {0} |-> 1], 10000)
           EXCEPT !.qubits_required = 2],
      [MkCircuit([k \in {"X"} |-> MaxCount], EmptyMap, 200000)
           EXCEPT !.qubits_required = 30] }

\* The OptimizationWeights instances optimization_phase is called with.
WeightInstances ==
    { OptimizationWeights(WUnit \div 2, WUnit \div 2, 0),
      OptimizationWeights(0, 0, WUnit),
      OptimizationWeights(0, WUnit, 0),
      OptimizationWeights(DefaultWeight("cost_weight"), DefaultWeight("error_weight"),
                          DefaultWeight("workload_weight")) }

\* The bind requests.
BindRequests ==
    { BindRequest(FALSE, EmptyMap, FALSE),
      BindRequest(TRUE, EmptyMap, TRUE),
      BindRequest(TRUE, [k \in {"cost_weight"} |-> WUnit], FALSE),
      BindRequest(TRUE, [k \in {"workload_weight"} |-> 34 * (WUnit \div 100)], TRUE),
      BindRequest(TRUE, [k \in {"workload_weight"} |-> 34 * (WUnit \div 100)], FALSE),
      BindRequest(TRUE, [k \in WeightKeys |-> IF k = "workload_weight" THEN 0
                                              ELSE WUnit \div 2], TRUE),
      BindRequest(TRUE, [k \in WeightKeys |-> IF k = "error_weight" THEN WUnit
                                              ELSE 0], TRUE) }

Init ==
    /\ qpus \in Pools(MaxPool)
    /\ circuit \in MainCircuits
    /\ constraints \in ConstraintLists
    /\ weights = NoWeights
    /\ pc = "init"
    /\ feasible = <<>>
    /\ evaluated = <<>>
    /\ optimal = None
    /\ response = NoResponse
    /\ out = NoResult

\* A faulty variant: matching books the feasible resources, raising their
\* queue-depth counter in the pool.
MatchedBooksFeasible(m) ==
    /\ feasible' = m.feasible
    /\ evaluated' = m.evaluated
    /\ qpus' = [i \in 1..Len(qpus) |->
                   IF \E j \in 1..Len(m.feasible) : m.feasible[j] = qpus[i]
                   THEN [qpus[i] EXCEPT !.workload = @ + 1]
                   ELSE qpus[i]]
    /\ pc' = IF m.raised THEN "match_raised" ELSE "matched"

\* The state after engine.matching_phase returned m (or raised): self.qpus
\* is only iterated, the feasible resources go into a new list.
Matched(m) ==
    /\ feasible' = m.feasible
    /\ evaluated' = m.evaluated
    /\ qpus' = qpus
    /\ pc' = IF m.raised THEN "match_raised" ELSE "matched"

\* engine.matching_phase(circuit, constraints)
MatchingPhase ==
    /\ pc = "init"
    /\ Matched(matching_phase(qpus, circuit, constraints))
    /\ UNCHANGED <<circuit, constraints, weights, optimal, response, out>>

\* The value is an exception that left the call.
Raised(r) == "t" \in DOMAIN r /\ r.t = "err"

\* The state after engine.optimization_phase returned or raised r: an
\* exception leaves the call and no resource is returned.
Optimized(r) ==
    IF Raised(r)
    THEN /\ optimal' = None
         /\ out' = [op |-> "optimization_phase", raised |-> r.v]
         /\ pc' = "optimize_raised"
    ELSE /\ optimal' = r
         /\ out' = out
         /\ pc' = "optimized"

\* engine.optimization_phase(feasible_qpus, circuit, weights)
OptimizationPhase(w) ==
    /\ pc = "matched"
    /\ weights' = w
    /\ Optimized(optimization_phase(feasible, circuit, w))
    /\ UNCHANGED <<qpus, circuit, constraints, feasible, evaluated, response>>

\* POST /bind
BindQpus(request) ==
    /\ pc = "init"
    /\ response' = bind_qpus(request, qpus, circuit, constraints)
    /\ pc' = "bound"
    /\ UNCHANGED <<qpus, circuit, constraints, weights, feasible, evaluated, optimal, out>>

Next ==
    \/ MatchingPhase
    \/ \E w \in WeightInstances : OptimizationPhase(w)
    \/ \E request \in BindRequests : BindQpus(request)

Spec == Init /\ [][Next]_vars

(***************************************************************************)
(* Claims about the scoring functions.                                     *)
(***************************************************************************)

\* The product of F(x) over the elements x of the set S.
RProd(S, F(_)) ==
    LET RECURSIVE P(_)
        P(todo) == IF todo = {} THEN ROne
                   ELSE LET x == CHOOSE y \in todo : TRUE
                        IN RMul(F(x), P(todo \ {x}))
    IN P(S)

\* The fidelity as the specification states it: gate kinds of the workload
\* present in the fidelity table, measured qubits present in the readout
\* table; absent ones contribute the factor 1.
FidelityProduct(qpu, c) ==
    LET GateFactor(k) == RPow(qpu.gate_fidelities[k], c.gate_counts[k])
        ReadoutFactor(q) == RPow(qpu.readout_fidelities[q], c.measurements[q])
    IN RMul(RProd(DOMAIN c.gate_counts \cap DOMAIN qpu.gate_fidelities, GateFactor),
            RProd(DOMAIN c.measurements \cap DOMAIN qpu.readout_fidelities, ReadoutFactor))

\* C4: for every workload the fidelity is the product of
\* gate_fidelity[kind]^count over the workload's gate kinds the resource
\* has a fidelity for, times the product of readout_fidelity[qubit]^count
\* over the measured qubits the resource has a readout fidelity for.
C4_FidelityIsProduct ==
    pc = "fidelity" => REq(out.val, FidelityProduct(qpus[1], circuit))

\* C4 amended: for every workload with at least one gate kind the fidelity
\* is that product, and for a workload whose gate-count mapping is empty it
\* is 1.0 whatever the measurements are (the early return of line 125).
C4_FidelityIsProductOrOne ==
    pc = "fidelity" =>
        IF DOMAIN circuit.gate_counts = {} THEN REq(out.val, ROne)
        ELSE REq(out.val, FidelityProduct(qpus[1], circuit))

\* C4 witness: a fidelity strictly between 0 and 1 has been computed for a
\* workload with gates and measurements, one gate kind of which the resource
\* has no fidelity for.
C4_Witness ==
    /\ pc = "fidelity"
    /\ DOMAIN circuit.gate_counts \ DOMAIN qpus[1].gate_fidelities # {}
    /\ DOMAIN circuit.gate_counts \cap DOMAIN qpus[1].gate_fidelities # {}
    /\ DOMAIN circuit.measurements \cap DOMAIN qpus[1].readout_fidelities # {}
    /\ RLt(RZero, out.val) /\ RLt(out.val, ROne)

NoGatesNoMeasurements(c) == DOMAIN c.gate_counts = {} /\ DOMAIN c.measurements = {}

\* C5 as stated: the fidelity is in the half-open interval (0, 1], and is 1.0
\* for a workload with no gates and no measurements.
C5_FidelityInHalfOpenUnit ==
    pc = "fidelity" =>
        /\ RLt(RZero, out.val) /\ RLe(out.val, ROne)
        /\ NoGatesNoMeasurements(circuit) => REq(out.val, ROne)

\* C5 amended: the fidelity is in the closed interval [0, 1] (0 is reached
\* when a fidelity of the table is 0), and is 1.0 for a workload with no gates
\* and no measurements.
C5_FidelityInClosedUnit ==
    pc = "fidelity" =>
        /\ RLe(RZero, out.val) /\ RLe(out.val, ROne)
        /\ NoGatesNoMeasurements(circuit) => REq(out.val, ROne)

\* C5 witness: a fidelity of exactly 0 has been computed for a workload with
\* gates.
C5_Witness ==
    /\ pc = "fidelity"
    /\ REq(out.val, RZero)
    /\ DOMAIN circuit.gate_counts # {}

WeightSum(w) == w.cost_weight + w.error_weight + w.workload_weight

\* The figure of merit as the specification states it.
WeightedSum(qpu, c, w) ==
    w.cost_weight * NormalizeCost(CalculateCost(qpu, c))
    + w.error_weight * (Scale - ToScale(CalculateFidelity(qpu, c)))
    + w.workload_weight * NormalizeWorkload(qpu.workload)

\* C6 as stated: the figure of merit is the weighted sum and lies strictly
\* between 0 and 1.
C6_FomInOpenUnit ==
    pc = "fom" =>
        /\ out.val = WeightedSum(qpus[1], circuit, weights)
        /\ 0 < out.val /\ out.val < WUnit * Scale

\* C6 amended: the figure of merit is the weighted sum and lies between 0 and
\* the sum of the weights, both included (the sum is 1.0 within 1e-6).
C6_FomInClosedRange ==
    pc = "fom" =>
        /\ out.val = WeightedSum(qpus[1], circuit, weights)
        /\ 0 <= out.val /\ out.val <= WeightSum(weights) * Scale

\* C6 witness: a figure of merit of exactly 0 has been computed (all the
\* weight on the error term, fidelity 1).
C6_Witness ==
    /\ pc = "fom"
    /\ out.val = 0
    /\ weights.error_weight = WUnit

\* 1e-6 in weight units
Tolerance == WUnit \div 1000000

\* C7: construction succeeds only for non-negative weights whose sum is 1.0
\* within 1e-6, keeps the weights as given (no renormalisation), fails for any
\* other sum, and only an instance so constructed reaches the scoring
\* functions.
C7_WeightsSumToOne ==
    /\ weights # NoWeights =>
           /\ weights.cost_weight >= 0
           /\ weights.error_weight >= 0
           /\ weights.workload_weight >= 0
           /\ Abs(WeightSum(weights) - WUnit) <= Tolerance
    /\ pc = "weights_ok" => weights = OptimizationWeights(out.args[1], out.args[2], out.args[3])
    /\ (pc \in {"weights_ok", "weights_err"}
        /\ Abs(out.args[1] + out.args[2] + out.args[3] - WUnit) > Tolerance)
           => (pc = "weights_err" /\ weights = NoWeights)
    /\ pc = "fom" => weights # NoWeights

\* C7 witness: an instance whose weights sum to 1.0 + 5e-7 exists and has
\* been used for scoring.
C7_Witness ==
    /\ pc = "fom"
    /\ WeightSum(weights) = WUnit + 1

(***************************************************************************)
(* Claims about the matching phase.                                        *)
(***************************************************************************)
InSeq(x, seq) == \E i \in 1..Len(seq) : seq[i] = x

\* The value a constraint evaluation gave is true (not False, not an error).
IsTrue(r) == ~IsErr(r) /\ r = Bool(TRUE)

\* The three conditions of eligibility.
Eligible(qpu, c, cons) ==
    /\ qpu.available
    /\ qpu.qubits >= c.qubits_required
    /\ \A j \in 1..Len(cons) : IsTrue(ConstraintEvaluate(cons[j], qpu, c, TRUE))

\* C1: a resource of the pool is in the result of matching_phase if and only
\* if it is available, has at least qubits_required qubits and every
\* constraint evaluates to true for it.
C1_MatchingIffEligible ==
    pc = "matched" =>
        \A i \in 1..Len(qpus) :
            InSeq(qpus[i], feasible) <=> Eligible(qpus[i], circuit, constraints)

\* C1 witness: with a non-empty constraint list, an unavailable resource
\* every constraint is true for and an available one with too few qubits are
\* both left out, and a third resource is feasible.
C1_Witness ==
    /\ pc = "matched"
    /\ constraints # <<>>
    /\ \E i \in 1..Len(qpus) :
           /\ ~qpus[i].available
           /\ \A j \in 1..Len(constraints) :
                  IsTrue(ConstraintEvaluate(constraints[j], qpus[i], circuit, TRUE))
           /\ ~InSeq(qpus[i], feasible)
    /\ \E i \in 1..Len(qpus) :
           /\ qpus[i].available
           /\ qpus[i].qubits < circuit.qubits_required
           /\ ~InSeq(qpus[i], feasible)
    /\ feasible # <<>>

\* An error is raised while the constraints are evaluated for the resource:
\* the resource gets as far as a constraint whose evaluation raises.
Raises(qpu, c, cons) ==
    /\ qpu.available
    /\ qpu.qubits >= c.qubits_required
    /\ \E j \in 1..Len(cons) :
           /\ IsErr(ConstraintEvaluate(cons[j], qpu, c, TRUE))
           /\ \A h \in 1..(j - 1) : IsTrue(ConstraintEvaluate(cons[h], qpu, c, TRUE))

Ids(pool) == [i \in 1..Len(pool) |-> pool[i].id]

\* C8: an error raised by a constraint for one resource excludes that
\* resource, does not end the matching pass, every resource of the pool is
\* still evaluated, and every resource is feasible exactly when it is feasible
\* in a pool of its own.
C8_ErrorExcludesOnlyThatResource ==
    pc \in {"matched", "match_raised"} =>
        /\ pc = "matched"
        /\ evaluated = Ids(qpus)
        /\ \A i \in 1..Len(qpus) :
               /\ Raises(qpus[i], circuit, constraints) => ~InSeq(qpus[i], feasible)
               /\ InSeq(qpus[i], feasible)
                    <=> matching_phase(<<qpus[i]>>, circuit, constraints).feasible # <<>>

\* C8 witness: a constraint raised for one resource and a later resource of
\* the pool is feasible.
C8_Witness ==
    /\ pc = "matched"
    /\ \E i \in 1..Len(qpus) : \E k \in (i + 1)..Len(qpus) :
           /\ Raises(qpus[i], circuit, constraints)
           /\ InSeq(qpus[k], feasible)

RECURSIVE IsSubsequence(_, _)
IsSubsequence(a, b) ==
    IF a = <<>> THEN TRUE
    ELSE IF b = <<>> THEN FALSE
    ELSE IF Head(a) = Head(b) THEN IsSubsequence(Tail(a), Tail(b))
    ELSE IsSubsequence(a, Tail(b))

\* C9: the result of matching_phase is a subsequence of the pool (pool order
\* kept), with no resource twice.
C9_FeasibleIsSubsequence ==
    pc = "matched" =>
        /\ IsSubsequence(feasible, qpus)
        /\ \A a \in 1..Len(feasible) : \A b \in 1..Len(feasible) :
               a # b => feasible[a] # feasible[b]

\* C9 witness: two resources are feasible, and the first resource of the pool
\* is not.
C9_Witness ==
    /\ pc = "matched"
    /\ Len(feasible) >= 2
    /\ ~InSeq(qpus[1], feasible)

(***************************************************************************)
(* Claims about the optimization phase and the ranking.                    *)
(***************************************************************************)
Fom(i) == CalculateFigureOfMerit(feasible[i], circuit, weights)

\* C2: for a non-empty feasible list optimization_phase returns an element of
\* the list whose figure of merit is minimal, the first one of the list when
\* several share the minimum.
C2_OptimalIsFirstMinimum ==
    (pc = "optimized" /\ feasible # <<>>) =>
        \E i \in 1..Len(feasible) :
            /\ optimal = feasible[i]
            /\ \A j \in 1..Len(feasible) : Fom(i) <= Fom(j)
            /\ \A j \in 1..(i - 1) : Fom(j) > Fom(i)

\* C2 witness: two elements share the minimal figure of merit, the first of
\* them was returned, and it is not the first element of the list.
C2_Witness ==
    /\ pc = "optimized"
    /\ \E i \in 2..Len(feasible) : \E k \in (i + 1)..Len(feasible) :
           /\ optimal = feasible[i]
           /\ Fom(i) = Fom(k)
           /\ \A j \in 1..Len(feasible) : Fom(i) <= Fom(j)

PoolIndex(id) == CHOOSE i \in 1..Len(qpus) : qpus[i].id = id

RankingReturned ==
    pc = "bound" /\ response.status = 200 /\ response.request.ranking

\* C3: the ranked list of bind has one entry for every feasible resource and
\* no other, is in ascending order of figure of merit, and entries of equal
\* figure of merit are in pool order.
C3_RankedIsStableSort ==
    RankingReturned =>
        LET ranked == response.ranked_qpus
            feasible_qpus == matching_phase(qpus, circuit, constraints).feasible
        IN /\ Len(ranked) = Len(feasible_qpus)
           /\ \A i \in 1..Len(feasible_qpus) :
                  \E k \in 1..Len(ranked) : ranked[k].qpu_id = feasible_qpus[i].id
           /\ \A k \in 1..Len(ranked) : \A l \in (k + 1)..Len(ranked) :
                  /\ ranked[k].qpu_id # ranked[l].qpu_id
                  /\ ranked[k].figure_of_merit <= ranked[l].figure_of_merit
                  /\ ranked[k].figure_of_merit = ranked[l].figure_of_merit
                         => PoolIndex(ranked[k].qpu_id) < PoolIndex(ranked[l].qpu_id)

\* C3 witness: a ranked list in which two entries have the same figure of
\* merit and the sort moved an entry before one that precedes it in the pool.
C3_Witness ==
    /\ RankingReturned
    /\ LET ranked == response.ranked_qpus
       IN \E k \in 1..Len(ranked) : \E l \in (k + 1)..Len(ranked) :
              \E m \in 1..Len(ranked) : \E n \in (m + 1)..Len(ranked) :
                  /\ ranked[k].figure_of_merit = ranked[l].figure_of_merit
                  /\ ranked[m].figure_of_merit < ranked[n].figure_of_merit
                  /\ PoolIndex(ranked[m].qpu_id) > PoolIndex(ranked[n].qpu_id)

(***************************************************************************)
(* Claims about the expression evaluator.                                  *)
(***************************************************************************)
SameValue(a, b) == a.t = b.t /\ a = b

\* Expressions made of a property reference, one operator between blanks and
\* a numeric literal or a second reference.
SingleOperatorExpressions ==
    { "qpu.max_depth * 0.8", "circuit.depth * 2", "qpu.qubits + 1",
      "qpu.max_depth / 2", "qpu.max_depth - circuit.depth" }

\* C10: an expression made of a property reference, one operator between
\* blanks and a literal or second reference is split at the operator, both
\* parts are evaluated and evaluate_expression returns the two values
\* combined with the operator.
C10_SplitAndCombined ==
    (pc = "expr" /\ out.expression \in SingleOperatorExpressions) =>
        /\ ~IsErr(out.val)
        /\ SameValue(out.val,
                     EvaluateArithmetic(out.expression, SplitOperator(out.expression, 1),
                                        qpus[1], circuit, out.engine))

\* Expressions of the form a + b * c, with their three operands.
TwoOperatorForm(e, a, b, c) == [e |-> e, a |-> a, b |-> b, c |-> c]
TwoOperatorExpressions ==
    { TwoOperatorForm("1 + 2 * 3", "1", "2", "3"),
      TwoOperatorForm("1 + circuit.depth * 2", "1", "circuit.depth", "2"),
      TwoOperatorForm("1 + 2 * circuit.depth", "1", "2", "circuit.depth") }

\* The value of an operand evaluated on its own.
Operand(x) == evaluate_expression(x, qpus[1], circuit, out.engine)

\* C11 as stated: a + b * c is split on " + " first, the left part is a and
\* the right part is b * c, so the value is a + (b * c).
C11_SplitOnPlusFirst ==
    pc = "expr" =>
        \A f \in TwoOperatorExpressions :
            out.expression = f.e =>
                SameValue(out.val,
                          Arith("+", Operand(f.a), Arith("*", Operand(f.b), Operand(f.c))))

\* C11 amended: a + b * c (not starting with a reference prefix) is split on
\* " * " first, the left part is a + b and the right part is c, so the value
\* is (a + b) * c.
C11_SplitOnTimesFirst ==
    pc = "expr" =>
        \A f \in TwoOperatorExpressions :
            out.expression = f.e =>
                SameValue(out.val,
                          Arith("*", Arith("+", Operand(f.a), Operand(f.b)), Operand(f.c)))

\* C11 witness: "1 + circuit.depth * 2" has been evaluated for a workload of
\* depth 2 and gave 6, where precedence would give 5.
C11_Witness ==
    /\ pc = "expr"
    /\ out.expression = "1 + circuit.depth * 2"
    /\ circuit.depth = 2
    /\ SameValue(out.val, IntVal(6))

(***************************************************************************)
(* Claims about the property resolver.                                     *)
(***************************************************************************)
\* The segment names a key of the mapping: a gate kind, or a qubit index
\* written in decimal.
IsKey(current, part) ==
    /\ current.t = "dict"
    /\ IF current.kt = "str" THEN part \in DOMAIN current.v
       ELSE Len(part) > 0 /\ AllDigits(part) /\ DigitsValue(part) \in DOMAIN current.v

KeyValue(current, part) ==
    IF current.kt = "str" THEN current.v[part] ELSE current.v[DigitsValue(part)]

\* The resolution the specification states: every segment is a named field
\* of the current object or a key of the current mapping.
RECURSIVE Resolve(_, _)
Resolve(current, parts) ==
    IF parts = <<>> THEN current
    ELSE IF HasAttr(current, Head(parts))
    THEN Resolve(GetAttr(current, Head(parts)), Tail(parts))
    ELSE IF IsKey(current, Head(parts))
    THEN Resolve(KeyValue(current, Head(parts)), Tail(parts))
    ELSE Err("ValueError: property not found")

\* C12: get_nested_property resolves every segment as a named field or as a
\* key of the current mapping (gate kind or qubit index), returns the
\* resolved value when every segment is present and fails otherwise.
C12_ResolvesFieldsAndKeys ==
    pc = "prop" =>
        SameValue(out.val, Resolve(Root(out.root), Split(out.path, ".")))

(***************************************************************************)
(* Claims about computed (derived) properties.                             *)
(***************************************************************************)
\* Constraint.evaluate on a computed target without custom predicate: the
\* missing-engine error, the unsupported-property error, or the comparison
\* of the engine-computed value.
ComputedTargetOutcome ==
    (pc = "constraint" /\ out.con.target = "computed" /\ out.con.custom_fn.kind = "none") =>
        IF ~out.engine
        THEN SameValue(out.val, Err("ValueError: engine required"))
        ELSE IF out.con.property \notin ComputedNames
        THEN SameValue(out.val, Err("ValueError: computed property not supported"))
        ELSE SameValue(out.val,
                       CompareValues(out.con.operator,
                                     ComputedValue(out.con.property, qpus[1], circuit),
                                     ComparisonValue(out.con, qpus[1], circuit, TRUE)))

\* The expression evaluator fails for every computed.<name> outside the set.
ComputedExpressionOutcome ==
    (pc = "expr" /\ StartsWith(out.expression, "computed.")
     /\ SubSeq(out.expression, 10, Len(out.expression)) \notin ComputedNames) =>
        SameValue(out.val, Err("ValueError: computed property not supported"))

\* C13: a constraint on a computed target fails with the missing-engine
\* error without engine, with the unsupported-property error for a name
\* outside the fixed set, and otherwise compares the engine-computed value;
\* the expression evaluator likewise fails for any computed.<name> outside
\* the set.
C13_ComputedErrors == ComputedTargetOutcome /\ ComputedExpressionOutcome

(***************************************************************************)
(* Claims about errors of the optimization phase and of bind.              *)
(***************************************************************************)
\* C14: optimization_phase on an empty feasible list raises the
\* no-feasible-resource error, which leaves the call (no resource is
\* returned), and on a non-empty list it does not raise.
C14_EmptyListRaises ==
    pc \in {"optimized", "optimize_raised"} =>
        IF feasible = <<>>
        THEN /\ pc = "optimize_raised"
             /\ out.raised = "ValueError: No feasible QPUs found"
             /\ optimal = None
        ELSE pc = "optimized" /\ InSeq(optimal, feasible)

\* C14 witness: optimization_phase was called with an empty feasible list
\* (a non-empty pool none of whose resources is feasible) and raised.
C14_Witness ==
    /\ pc = "optimize_raised"
    /\ feasible = <<>>
    /\ Len(qpus) >= 2

(***************************************************************************)
(* Claim about the frame of the engine calls.                              *)
(***************************************************************************)
\* C15: no call of matching_phase, optimization_phase, the figure-of-merit
\* calculation or bind changes the resource pool (length, order, every field
\* of every resource) or the workload.
C15_PoolAndWorkloadUnchanged == [][qpus' = qpus /\ circuit' = circuit]_vars

\* C15 witness: matching with constraints and optimization have both run on
\* a pool of several resources, one of them not available, one with a
\* non-empty queue.
C15_Witness ==
    /\ pc = "optimized"
    /\ constraints # <<>>
    /\ Len(qpus) >= 2
    /\ \E i \in 1..Len(qpus) : ~qpus[i].available
    /\ \E i \in 1..Len(qpus) : qpus[i].workload > 0

(***************************************************************************)
(* Claims about the bind endpoint.                                         *)
(***************************************************************************)
\* The bind request got as far as the matching phase: the workload was
\* parsed, the constraints and the weights were constructed.
ReachedMatching ==
    /\ pc = "bound"
    /\ response.request.qasm_ok
    /\ WeightsAccepted(GetWeight(response.request.figures_of_merit, "cost_weight"),
                       GetWeight(response.request.figures_of_merit, "error_weight"),
                       GetWeight(response.request.figures_of_merit, "workload_weight"))

\* C16: when the matching phase of a bind request yields no feasible
\* resource, the answer has status 404 and the detail "No feasible QPUs
\* found for the given constraints", which sets it apart from the 400 of
\* the other errors.
C16_NoFeasibleIs404 ==
    (ReachedMatching /\ matching_phase(qpus, circuit, constraints).feasible = <<>>) =>
        /\ response.status = 404
        /\ response.detail = "No feasible QPUs found for the given constraints"

\* C17: in a bind response with ranking and a non-empty feasible set, the
\* selected resource is the first entry of the ranked list and the reported
\* figure of merit is that entry's score.
C17_SelectedIsFirstRanked ==
    RankingReturned =>
        /\ response.ranked_qpus # <<>>
        /\ response.selected_qpu = response.ranked_qpus[1].qpu_id
        /\ response.figure_of_merit = response.ranked_qpus[1].figure_of_merit

\* C17 witness: figures of merit were given, the two best entries of the
\* ranked list have the same score, and the selected resource is not the
\* first resource of the pool.
C17_Witness ==
    /\ RankingReturned
    /\ DOMAIN response.request.figures_of_merit # {}
    /\ Len(response.ranked_qpus) >= 3
    /\ response.ranked_qpus[1].figure_of_merit = response.ranked_qpus[2].figure_of_merit
    /\ response.ranked_qpus[2].figure_of_merit < response.ranked_qpus[3].figure_of_merit
    /\ response.selected_qpu # qpus[1].id

====
